---- MODULE Spec2Model ----
(***************************************************************************)
(* Model of scripts/add-pagination.py: the patcher add_pagination_to_file  *)
(* (a guard followed by six re.sub rewrites and one write) and the driver  *)
(* main (a loop over a fixed list of eight files with three counters).     *)
(*                                                                         *)
(* A file's text is a sequence of tokens.  The text a sequence stands for  *)
(* is its tokens joined by one blank, the token NL being a line break.     *)
(* Every regular expression of the script is translated to a matcher over  *)
(* token sequences: "\s*" and "\s+" between two tokens are runs of NL (the *)
(* joining blank is always there), ".*" is a run of tokens without NL,     *)
(* "[^}]*" is a run of tokens without a closing brace.                     *)
(***************************************************************************)
EXTENDS Integers, Sequences, FiniteSets, TLC

\* ------------------------------------------------------------ bounds ----
\* number of import lines of a types module in a file
MaxTypeImports == 2
\* number of helper components in front of the exported component
MaxHelpers == 1
\* number of successive calls of add_pagination_to_file on one file
MaxCalls == 2

\* ------------------------------------------------------------ tokens ----
NL == "\n"
REACT == "'react';"
REACT_NOSEMI == "'react'"
TYPES == "'../../../types';"
PROPTYPES == "'./prop-types';"
OTHERMOD == "'./api';"
DIV_CLOSE == "</div>"
PAREN_SEMI == ");"
BRACE_OPEN == "{"
BRACE_CLOSE == "}"

\* tokens that are module strings: they start with a quote character
ModuleTokens == {REACT, REACT_NOSEMI, TYPES, PROPTYPES, OTHERMOD,
                 "'../../../components/common/Pagination';",
                 "'../../components/common/Pagination';"}

\* tokens that end with  types';  (the tail of type_import_pattern)
TypesTokens == {TYPES, PROPTYPES}

\* files_to_process: (resource_name, resource_var) of each entry, in order
files_to_process ==
  << <<"Services", "services">>, <<"StatefulSets", "statefulSets">>,
     <<"DaemonSets", "daemonSets">>, <<"Jobs", "jobs">>,
     <<"CronJobs", "cronJobs">>, <<"Ingresses", "ingresses">>,
     <<"ConfigMaps", "configMaps">>, <<"Secrets", "secrets">> >>

NumFiles == Len(files_to_process)

\* the literal texts the patterns of steps 2-4 are built from
ComponentTok(resource_name) == "export default function " \o resource_name \o "()"
ItemsTok(resource_var) == "const " \o resource_var \o " = data?.items ?? [];"
MapTok(resource_var) == "{" \o resource_var \o ".map("
CurrentMapTok(resource_name) == "{current" \o resource_name \o ".map("

\* the inserted texts, token by token
ReactBothImport == <<"import", BRACE_OPEN, "useState,", "useEffect", BRACE_CLOSE, "from", REACT>>

PaginationImport(resource_name) ==
  IF resource_name = "Nodes"
  THEN <<"import", "Pagination", "from", "'../../components/common/Pagination';">>
  ELSE <<"import", "Pagination", "from", "'../../../components/common/Pagination';">>

CURRENT_PAGE_DECL == "const [currentPage, setCurrentPage] = useState(1);"
PAGE_SIZE_DECL == "const [pageSize, setPageSize] = useState(20);"
StateVars == <<NL, CURRENT_PAGE_DECL, NL, PAGE_SIZE_DECL, NL>>

EFFECT_HEAD == "useEffect(() => {"
EFFECT_TAIL == "}, [currentNamespace]);"
NamespaceEffect == <<NL, "// reset page on namespace change", NL, EFFECT_HEAD, NL,
                     "setCurrentPage(1);", NL, EFFECT_TAIL, NL>>

TotalItemsTok(resource_var) == "const totalItems = " \o resource_var \o ".length;"
TOTAL_PAGES_DECL == "const totalPages = Math.ceil(totalItems / pageSize);"
CurrentSliceTok(resource_name, resource_var) ==
  "const current" \o resource_name \o " = " \o resource_var \o ".slice(startIndex, endIndex);"

PaginationLogic(resource_name, resource_var) ==
  <<NL, NL, "// pagination", NL, TotalItemsTok(resource_var), NL, TOTAL_PAGES_DECL, NL,
    "const startIndex = (currentPage - 1) * pageSize;", NL,
    "const endIndex = startIndex + pageSize;", NL,
    CurrentSliceTok(resource_name, resource_var), NL, NL,
    "const handlePageChange = (page: number) => {", NL, "setCurrentPage(page);", NL, "};", NL, NL,
    "const handlePageSizeChange = (size: number) => {", NL, "setPageSize(size);", NL,
    "setCurrentPage(1);", NL, "};", NL>>

PAGINATION_TAG == "<Pagination"
PaginationComponent ==
  <<NL, "{/* pagination */}", NL, "{totalPages > 1 && (", NL, PAGINATION_TAG, NL,
    "currentPage={currentPage}", NL, "totalPages={totalPages}", NL,
    "totalItems={totalItems}", NL, "pageSize={pageSize}", NL,
    "onPageChange={handlePageChange}", NL, "onPageSizeChange={handlePageSizeChange}", NL,
    "/>", NL, ")}", NL, DIV_CLOSE, NL, PAREN_SEMI, NL, BRACE_CLOSE>>

\* ------------------------------------------------- substring tests ------
Range(s) == {s[i] : i \in 1..Len(s)}

\* tokens whose text contains the given needle ( needle in content )
HasPagination == {"Pagination", PAGINATION_TAG,
                  "'../../../components/common/Pagination';",
                  "'../../components/common/Pagination';"}
HasCurrentPage == {"currentPage", CURRENT_PAGE_DECL, "currentPage={currentPage}",
                   "const startIndex = (currentPage - 1) * pageSize;"}
HasUseState == {"useState", "useState,", CURRENT_PAGE_DECL, PAGE_SIZE_DECL}
HasUseEffect == {"useEffect", ", useEffect", EFFECT_HEAD}
HasCurrentNamespace == {"currentNamespace", EFFECT_TAIL}

In(needleTokens, s) == Range(s) \cap needleTokens # {}

\* tokens of an unpatched file that contain a closing brace: those whose
\* first "}" is their last character, and those where text follows it
CloseBraceLast == {BRACE_CLOSE}
ROW == "j => <Row key={j.id}/>)}"
CloseBraceInside == {ROW}

\* ------------------------------------------------ regular expressions ---
Max(S) == CHOOSE x \in S : \A y \in S : y <= x
Min(S) == CHOOSE x \in S : \A y \in S : x <= y

\* index of the last token of the line that token i is on (i-1 if i is NL)
LineEnd(s, i) ==
  Max({i - 1} \cup {e \in i..Len(s) : \A k \in i..e : s[k] # NL})

\* "\s*" / "\s+" between tokens: first index at or after i that is not NL
SkipNL(s, i) ==
  Min({Len(s) + 1} \cup {k \in i..Len(s) : s[k] # NL})

TokAt(s, i) == IF i >= 1 /\ i <= Len(s) THEN s[i] ELSE ""

\* re.sub(pattern, repl, content): all non-overlapping matches, leftmost
\* first; ends[i] is the last index of the match starting at i (0: none),
\* repl[i] the replacement of that match
RECURSIVE Sub(_, _, _, _)
Sub(s, ends, repl, i) ==
  LET M == {m \in i..Len(s) : ends[m] > 0}
  IN IF M = {} THEN SubSeq(s, i, Len(s))
     ELSE SubSeq(s, i, Min(M) - 1) \o repl[Min(M)] \o Sub(s, ends, repl, ends[Min(M)] + 1)

\* import_pattern  (import.*from\s+['"]react['"];)
ImportPatternEnd(s, i) ==
  IF s[i] # "import" THEN 0
  ELSE LET J == {j \in (i + 1)..LineEnd(s, i) :
                   s[j] = "from" /\ TokAt(s, SkipNL(s, j + 1)) = REACT}
       IN IF J = {} THEN 0 ELSE SkipNL(s, Max(J) + 1)

\* (import\s+\{[^}]*)\}\s+from\s+['"]react['"];   -- index of the "}" or 0
BraceImportClose(s, i) ==
  IF s[i] # "import" \/ TokAt(s, SkipNL(s, i + 1)) # BRACE_OPEN THEN 0
  ELSE LET q == SkipNL(s, i + 1)
           B == {m \in (q + 1)..Len(s) : s[m] \in CloseBraceLast \cup CloseBraceInside}
       IN IF B = {} THEN 0
          ELSE IF s[Min(B)] \in CloseBraceLast
                  /\ TokAt(s, SkipNL(s, Min(B) + 1)) = "from"
                  /\ TokAt(s, SkipNL(s, SkipNL(s, Min(B) + 1) + 1)) = REACT
               THEN Min(B) ELSE 0

BraceImportEnd(s, i) ==
  IF BraceImportClose(s, i) = 0 THEN 0
  ELSE SkipNL(s, SkipNL(s, BraceImportClose(s, i) + 1) + 1)

\* type_import_pattern  (import.*from\s+['"].*types['"];)
TypeImportRest(s, j) ==
  LET q == SkipNL(s, j + 1)
      E == {e \in q..LineEnd(s, q) : s[e] \in TypesTokens}
  IN IF TokAt(s, q) \in ModuleTokens /\ E # {} THEN Max(E) ELSE 0

TypeImportPatternEnd(s, i) ==
  IF s[i] # "import" THEN 0
  ELSE LET J == {j \in (i + 1)..LineEnd(s, i) : s[j] = "from" /\ TypeImportRest(s, j) > 0}
       IN IF J = {} THEN 0 ELSE TypeImportRest(s, Max(J))

\* component_pattern  (export default function NAME\(\)\s*\{)
ComponentPatternEnd(s, i, resource_name) ==
  IF s[i] = ComponentTok(resource_name) /\ TokAt(s, SkipNL(s, i + 1)) = BRACE_OPEN
  THEN SkipNL(s, i + 1) ELSE 0

\* items_pattern  (const VAR = data\?\.items \?\? \[\];)
ItemsPatternEnd(s, i, resource_var) == IF s[i] = ItemsTok(resource_var) THEN i ELSE 0

\* map_pattern  \{VAR\.map\(
MapPatternEnd(s, i, resource_var) == IF s[i] = MapTok(resource_var) THEN i ELSE 0

\* end_pattern  (\s*</div>\s*</div>\s*\);\s*\})
EndPatternEnd(s, i) ==
  LET q1 == SkipNL(s, i)
      q2 == SkipNL(s, q1 + 1)
      q3 == SkipNL(s, q2 + 1)
      q4 == SkipNL(s, q3 + 1)
  IN IF TokAt(s, q1) = DIV_CLOSE /\ TokAt(s, q2) = DIV_CLOSE
        /\ TokAt(s, q3) = PAREN_SEMI /\ TokAt(s, q4) = BRACE_CLOSE
     THEN q4 ELSE 0

\* ------------------------------------------- the rewrites, lines 23-112 -
\* lines 25-36: the hook imports
ImportHooks(s) ==
  IF ~In(HasUseState, s)
  THEN Sub(s, [i \in 1..Len(s) |-> ImportPatternEnd(s, i)],
              [i \in 1..Len(s) |-> ReactBothImport], 1)
  ELSE IF ~In(HasUseEffect, s)
  THEN Sub(s, [i \in 1..Len(s) |-> BraceImportEnd(s, i)],
              [i \in 1..Len(s) |->
                 SubSeq(s, i, BraceImportClose(s, i) - 1)
                   \o <<", useEffect", BRACE_CLOSE, "from", REACT>>], 1)
  ELSE s

\* lines 39-48: the Pagination component import
ImportPagination(s, resource_name) ==
  Sub(s, [i \in 1..Len(s) |-> TypeImportPatternEnd(s, i)],
         [i \in 1..Len(s) |->
            SubSeq(s, i, TypeImportPatternEnd(s, i)) \o <<NL>> \o PaginationImport(resource_name)], 1)

\* lines 58-65: state_vars, with the effect when has_namespace
StateVarsFor(has_namespace) ==
  IF has_namespace THEN StateVars \o NamespaceEffect ELSE StateVars

\* line 67
InsertStateVars(s, resource_name, has_namespace) ==
  Sub(s, [i \in 1..Len(s) |-> ComponentPatternEnd(s, i, resource_name)],
         [i \in 1..Len(s) |->
            SubSeq(s, i, ComponentPatternEnd(s, i, resource_name))
              \o StateVarsFor(has_namespace)], 1)

\* lines 70-89
InsertPaginationLogic(s, resource_name, resource_var) ==
  Sub(s, [i \in 1..Len(s) |-> ItemsPatternEnd(s, i, resource_var)],
         [i \in 1..Len(s) |-> <<s[i]>> \o PaginationLogic(resource_name, resource_var)], 1)

\* lines 92-93
RewriteMap(s, resource_name, resource_var) ==
  Sub(s, [i \in 1..Len(s) |-> MapPatternEnd(s, i, resource_var)],
         [i \in 1..Len(s) |-> <<CurrentMapTok(resource_name)>>], 1)

\* lines 96-112: the match is replaced by pagination_component, which has
\* no group reference
InsertPaginationComponent(s) ==
  Sub(s, [i \in 1..Len(s) |-> EndPatternEnd(s, i)],
         [i \in 1..Len(s) |-> PaginationComponent], 1)

\* the whole pipeline of one call that passes the guard
Transform(s, resource_name, resource_var) ==
  LET c1 == ImportHooks(s)
      c2 == ImportPagination(c1, resource_name)
      c3 == InsertStateVars(c2, resource_name, In(HasCurrentNamespace, c2))
      c4 == InsertPaginationLogic(c3, resource_name, resource_var)
      c5 == RewriteMap(c4, resource_name, resource_var)
  IN InsertPaginationComponent(c5)

\* --------------------------------------------------------- the files ----
RECURSIVE Repeat(_, _)
Repeat(s, n) == IF n = 0 THEN << >> ELSE s \o Repeat(s, n - 1)

\* the react import section of a file
ReactSections ==
  { << >>,
    <<"import", "React", "from", REACT, NL>>,
    <<"import", "React", "from", REACT_NOSEMI, NL>>,
    <<"import", BRACE_OPEN, "useState", BRACE_CLOSE, "from", REACT, NL>>,
    <<"import", BRACE_OPEN, "useEffect", BRACE_CLOSE, "from", REACT, NL>>,
    <<"import", "React,", BRACE_OPEN, "useState", BRACE_CLOSE, "from", REACT, NL>>,
    <<"import", BRACE_OPEN, "useState,", "useEffect", BRACE_CLOSE, "from", REACT, NL>>,
    <<"import", "React", "from", REACT, NL,
      "import", BRACE_OPEN, "useMemo", BRACE_CLOSE, "from", REACT, NL>> }

\* n import lines of types modules, after an import of another module
TypeSection(n) ==
  <<"import", BRACE_OPEN, "useQuery", BRACE_CLOSE, "from", OTHERMOD, NL>>
  \o (IF n >= 1 THEN <<"import", "type", BRACE_OPEN, "Item", BRACE_CLOSE, "from", TYPES, NL>>
      ELSE << >>)
  \o (IF n >= 2 THEN Repeat(<<"import", "PropTypes", "from", PROPTYPES, NL>>, n - 1)
      ELSE << >>)

\* a component that is not the exported one and ends like it
Helper ==
  <<"function Helper()", BRACE_OPEN, NL, "return (", NL, "<div>", NL, "<div>", "x", DIV_CLOSE, NL,
    DIV_CLOSE, NL, PAREN_SEMI, NL, BRACE_CLOSE, NL>>

\* the exported component; each flag says whether the anchor of a step has
\* the shape the step's pattern expects
Component(resource_name, resource_var, open, ns, items, close, marker) ==
  (IF open THEN <<ComponentTok(resource_name)>>
   ELSE <<"export default function " \o resource_name \o "(props)">>)
  \o <<BRACE_OPEN, NL>>
  \o (IF ns THEN <<"const", BRACE_OPEN, "currentNamespace", BRACE_CLOSE, "=", "useStore();", NL>>
      ELSE << >>)
  \o (IF marker = "Pagination" THEN <<"//", "Pagination", NL>>
      ELSE IF marker = "currentPage" THEN <<"const", "currentPage", "=", "1;", NL>>
      ELSE << >>)
  \o (IF items THEN <<ItemsTok(resource_var)>>
      ELSE <<"const " \o resource_var \o " = data?.items || [];">>)
  \o <<NL, "return (", "<div>">>
  \o (IF close THEN <<"<div>", MapTok(resource_var), ROW, DIV_CLOSE, DIV_CLOSE, PAREN_SEMI, BRACE_CLOSE>>
      ELSE <<MapTok(resource_var), ROW, DIV_CLOSE, PAREN_SEMI, BRACE_CLOSE>>)
  \o <<NL>>

Markers == {"none", "Pagination", "currentPage"}

\* the bodies of the files of entry e
Bodies(e) ==
  LET n == files_to_process[e][1]
      v == files_to_process[e][2]
  IN { Repeat(Helper, h) \o Component(n, v, open, ns, items, close, "none") :
         h \in 0..MaxHelpers, open \in BOOLEAN, ns \in BOOLEAN,
         items \in BOOLEAN, close \in BOOLEAN }
     \cup
     { Component(n, v, a, ns, a, a, m) :
         a \in BOOLEAN, ns \in BOOLEAN, m \in Markers \ {"none"} }

\* the files add_pagination_to_file is applied to for entry e
Inputs(e) ==
  { r \o TypeSection(t) \o b : r \in ReactSections, t \in 0..MaxTypeImports, b \in Bodies(e) }

\* the files the driver meets at entry e
DriverInputs(e) ==
  { <<"import", "React", "from", REACT, NL>> \o TypeSection(1)
      \o Component(files_to_process[e][1], files_to_process[e][2], a, ns, a, a, m) :
      a \in BOOLEAN, ns \in BOOLEAN, m \in Markers }

\* what the file system says about a path: "missing" fails exists(),
\* "unreadable" makes read_text raise, "readonly" makes write_text raise
Statuses == {"ok", "missing", "unreadable", "readonly"}

\* --------------------------------------------------------- the state ----
VARIABLES
  pc,             \* position in main / add_pagination_to_file
  idx,            \* index in files_to_process of the entry being processed
  status,         \* what the file system says about the entry's path
  disk,           \* the text of the entry's file on disk
  content,        \* the local buffer of add_pagination_to_file
  success_count, skip_count, error_count,
  before,         \* history: the file's text when the current call started
  reads, writes,  \* history: read_text / write_text calls of the current call
  steps,          \* history: re.sub rewrites done by the current call
  hist,           \* history: outcome and resulting file text of each call on this file
  visited         \* history: the entries main has finished, in order

vars == <<pc, idx, status, disk, content, success_count, skip_count, error_count,
          before, reads, writes, steps, hist, visited>>

counters == <<success_count, skip_count, error_count>>
driverVars == <<idx, status, success_count, skip_count, error_count, visited>>

resource_name == files_to_process[idx][1]
resource_var == files_to_process[idx][2]

\* a guard that looks for one of the two markers only
HasMarkerPaginationOnly(s) == In(HasPagination, s)

\* line 19
HasMarker(s) == In(HasPagination, s) \/ In(HasCurrentPage, s)

\* ------------------------------------ add_pagination_to_file, 10-117 ----
\* line 16, read_text succeeds
ReadOk ==
  /\ pc = "read" /\ status \in {"ok", "readonly"}
  /\ content' = disk
  /\ reads' = reads + 1
  /\ pc' = "guard"
  /\ UNCHANGED <<disk, before, writes, steps, hist, driverVars>>

\* line 16, read_text raises
ReadRaises ==
  /\ pc = "read" /\ status \in {"missing", "unreadable"}
  /\ reads' = reads + 1
  /\ hist' = Append(hist, [ret |-> "raised", disk |-> disk])
  /\ pc' = "raised"
  /\ UNCHANGED <<disk, content, before, writes, steps, driverVars>>

\* lines 19-21
GuardSkip ==
  /\ pc = "guard" /\ HasMarker(content)
  /\ hist' = Append(hist, [ret |-> "False", disk |-> disk])
  /\ pc' = "returned"
  /\ UNCHANGED <<disk, content, before, reads, writes, steps, driverVars>>

GuardPass ==
  /\ pc = "guard" /\ ~HasMarker(content)
  /\ pc' = "hooks"
  /\ UNCHANGED <<disk, content, before, reads, writes, steps, hist, driverVars>>

\* lines 24-36
ImportHooksStep ==
  /\ pc = "hooks"
  /\ content' = ImportHooks(content)
  /\ steps' = steps + 1
  /\ pc' = "pagimport"
  /\ UNCHANGED <<disk, before, reads, writes, hist, driverVars>>

\* lines 39-48
ImportPaginationStep ==
  /\ pc = "pagimport"
  /\ content' = ImportPagination(content, resource_name)
  /\ steps' = steps + 1
  /\ pc' = "state"
  /\ UNCHANGED <<disk, before, reads, writes, hist, driverVars>>

\* lines 51-67
StateVarsStep ==
  /\ pc = "state"
  /\ content' = InsertStateVars(content, resource_name, In(HasCurrentNamespace, content))
  /\ steps' = steps + 1
  /\ pc' = "logic"
  /\ UNCHANGED <<disk, before, reads, writes, hist, driverVars>>

\* lines 70-89
PaginationLogicStep ==
  /\ pc = "logic"
  /\ content' = InsertPaginationLogic(content, resource_name, resource_var)
  /\ steps' = steps + 1
  /\ pc' = "map"
  /\ UNCHANGED <<disk, before, reads, writes, hist, driverVars>>

\* a rewrite that saves the buffer as soon as it is done
MapStepSaves ==
  /\ pc = "map"
  /\ content' = RewriteMap(content, resource_name, resource_var)
  /\ disk' = content'
  /\ writes' = writes + 1
  /\ steps' = steps + 1
  /\ pc' = "end"
  /\ UNCHANGED <<before, reads, hist, driverVars>>

\* lines 92-93
MapStep ==
  /\ pc = "map"
  /\ content' = RewriteMap(content, resource_name, resource_var)
  /\ steps' = steps + 1
  /\ pc' = "end"
  /\ UNCHANGED <<disk, before, reads, writes, hist, driverVars>>

\* lines 96-112
EndStep ==
  /\ pc = "end"
  /\ content' = InsertPaginationComponent(content)
  /\ steps' = steps + 1
  /\ pc' = "write"
  /\ UNCHANGED <<disk, before, reads, writes, hist, driverVars>>

\* lines 115-117, write_text succeeds
WriteOk ==
  /\ pc = "write" /\ status = "ok"
  /\ disk' = content
  /\ writes' = writes + 1
  /\ hist' = Append(hist, [ret |-> "True", disk |-> content])
  /\ pc' = "returned"
  /\ UNCHANGED <<content, before, reads, steps, driverVars>>

\* line 115, write_text raises: the file cannot be opened for writing
WriteRaises ==
  /\ pc = "write" /\ status = "readonly"
  /\ hist' = Append(hist, [ret |-> "raised", disk |-> disk])
  /\ pc' = "raised"
  /\ UNCHANGED <<disk, content, before, reads, writes, steps, driverVars>>

\* ------------------------------------------------------ main, 119-161 ---
\* the file system's answer for the path of entry e
FileStates(e) ==
  { [status |-> st, disk |-> d] : st \in {"ok", "readonly", "unreadable"}, d \in DriverInputs(e) }
  \cup { [status |-> "missing", disk |-> << >>] }

\* the for loop moves on to the next entry of files_to_process
NextEntry ==
  /\ idx' = idx + 1
  /\ visited' = Append(visited, idx)
  /\ IF idx + 1 <= NumFiles
     THEN \E f \in FileStates(idx + 1) : status' = f.status /\ disk' = f.disk
     ELSE UNCHANGED <<status, disk>>
  /\ hist' = << >>
  /\ content' = << >> /\ before' = << >>
  /\ reads' = 0 /\ writes' = 0 /\ steps' = 0
  /\ pc' = "for"

\* lines 144-147
Missing ==
  /\ pc = "for" /\ idx <= NumFiles /\ status = "missing"
  /\ error_count' = error_count + 1
  /\ UNCHANGED <<success_count, skip_count>>
  /\ NextEntry

\* line 150, the call
Call ==
  /\ pc = "for" /\ idx <= NumFiles /\ status # "missing"
  /\ pc' = "read"
  /\ content' = << >> /\ before' = disk
  /\ reads' = 0 /\ writes' = 0 /\ steps' = 0
  /\ UNCHANGED <<disk, hist, driverVars>>

\* lines 150-153
CountOutcome ==
  /\ pc = "returned"
  /\ IF hist[Len(hist)].ret = "True"
     THEN success_count' = success_count + 1 /\ UNCHANGED <<skip_count, error_count>>
     ELSE skip_count' = skip_count + 1 /\ UNCHANGED <<success_count, error_count>>
  /\ NextEntry

\* a loop without the try: the exception leaves the for loop
ExceptAborts ==
  /\ pc = "raised"
  /\ pc' = "done"
  /\ UNCHANGED <<disk, content, before, reads, writes, steps, hist, driverVars>>

\* lines 154-156
Except ==
  /\ pc = "raised"
  /\ error_count' = error_count + 1
  /\ UNCHANGED <<success_count, skip_count>>
  /\ NextEntry

\* lines 158-161
Summary ==
  /\ pc = "for" /\ idx > NumFiles
  /\ pc' = "done"
  /\ UNCHANGED <<disk, content, before, reads, writes, steps, hist, driverVars>>

Init ==
  /\ pc = "for" /\ idx = 1
  /\ \E f \in FileStates(1) : status = f.status /\ disk = f.disk
  /\ content = << >> /\ before = << >>
  /\ success_count = 0 /\ skip_count = 0 /\ error_count = 0
  /\ reads = 0 /\ writes = 0 /\ steps = 0
  /\ hist = << >> /\ visited = << >>

Next ==
  \/ Missing \/ Call \/ CountOutcome \/ Except \/ Summary
  \/ ReadOk \/ ReadRaises \/ GuardSkip \/ GuardPass
  \/ ImportHooksStep \/ ImportPaginationStep \/ StateVarsStep
  \/ PaginationLogicStep \/ MapStep \/ EndStep
  \/ WriteOk \/ WriteRaises

Spec == Init /\ [][Next]_vars

\* ------------- add_pagination_to_file called repeatedly on one file -----
\* the same call again, on the file the previous call left
CallAgain ==
  /\ pc \in {"returned", "raised"} /\ Len(hist) < MaxCalls
  /\ pc' = "read"
  /\ content' = << >> /\ before' = disk
  /\ reads' = 0 /\ writes' = 0 /\ steps' = 0
  /\ UNCHANGED <<disk, hist, driverVars>>

InitPatch ==
  /\ pc = "read"
  /\ idx \in 1..NumFiles
  /\ status \in Statuses
  /\ disk \in Inputs(idx)
  /\ content = << >> /\ before = disk
  /\ success_count = 0 /\ skip_count = 0 /\ error_count = 0
  /\ reads = 0 /\ writes = 0 /\ steps = 0
  /\ hist = << >> /\ visited = << >>

NextPatch ==
  \/ CallAgain
  \/ ReadOk \/ ReadRaises \/ GuardSkip \/ GuardPass
  \/ ImportHooksStep \/ ImportPaginationStep \/ StateVarsStep
  \/ PaginationLogicStep \/ MapStep \/ EndStep
  \/ WriteOk \/ WriteRaises

SpecPatch == InitPatch /\ [][NextPatch]_vars

TypeOK ==
  /\ pc \in {"for", "read", "guard", "hooks", "pagimport", "state", "logic", "map", "end",
             "write", "returned", "raised", "done"}
  /\ idx \in 1..(NumFiles + 1)
  /\ status \in Statuses

\* ---------------------------------------------------------- properties --
Count(s, t) == Cardinality({i \in 1..Len(s) : s[i] = t})
Last == hist[Len(hist)]
InCall == pc \in {"read", "guard", "hooks", "pagimport", "state", "logic", "map", "end",
                  "write", "returned", "raised"}
Patched == pc = "returned" /\ Last.ret = "True"
Sum == success_count + skip_count + error_count

\* how far main is: entries finished, then the position within the entry
PcOrder == <<"for", "read", "guard", "hooks", "pagimport", "state", "logic", "map", "end",
             "write", "returned", "raised", "done">>
Progress(i, p) == i * Len(PcOrder) + (CHOOSE k \in 1..Len(PcOrder) : PcOrder[k] = p)

\* C1: a file that was read and holds the text Pagination or currentPage is
\* never rewritten: the call does no rewrite and no write, leaves the file
\* as it was, returns False, and main counts the file as skipped
C1_MarkerFileSkipped ==
  /\ [](InCall /\ reads = 1 /\ pc # "raised"
          /\ (In(HasPagination, before) \/ In(HasCurrentPage, before))
        => /\ pc \in {"guard", "returned"}
           /\ steps = 0 /\ writes = 0 /\ disk = before
           /\ (pc = "returned" => Last.ret = "False"))
  /\ [][pc = "returned" /\ (In(HasPagination, before) \/ In(HasCurrentPage, before))
        => /\ skip_count' = skip_count + 1
           /\ success_count' = success_count /\ error_count' = error_count]_vars

C1_Witness ==
  /\ pc = "returned" /\ status = "ok"
  /\ In(HasCurrentPage, before) /\ ~In(HasPagination, before)
  /\ Last.ret = "False" /\ disk = before

\* C6: main finishes the entries one by one in list order, every finished
\* entry adds one to exactly one counter, a missing path and an exception
\* add one to error_count only and the loop goes on, and the run ends at
\* the summary with the three counters adding up to the length of the list
\* (until the summary main's loop always has a step to take, and every
\* step moves it forward in the list or in the call, so it gets there)
C6_DriverIsolation ==
  /\ [](/\ visited = [i \in 1..(idx - 1) |-> i]
        /\ Sum = Len(visited)
        /\ (pc = "done" => Sum = NumFiles /\ Len(visited) = NumFiles)
        /\ (pc = "raised" => ENABLED Except)
        /\ (pc = "returned" => ENABLED CountOutcome)
        /\ (pc = "for" /\ idx <= NumFiles => ENABLED (Missing \/ Call))
        /\ (pc = "for" /\ idx > NumFiles => ENABLED Summary))
  /\ [][/\ (visited' # visited =>
              /\ visited' = Append(visited, idx)
              /\ Sum' = Sum + 1
              /\ success_count' >= success_count /\ skip_count' >= skip_count
              /\ error_count' >= error_count)
        /\ (pc = "raised" \/ (pc = "for" /\ idx <= NumFiles /\ status = "missing") =>
              /\ error_count' = error_count + 1
              /\ success_count' = success_count /\ skip_count' = skip_count
              /\ pc' = "for" /\ idx' = idx + 1)
        /\ (visited' = visited => counters' = counters)
        /\ Progress(idx', pc') > Progress(idx, pc)]_vars

C6_Witness ==
  /\ pc = "done" /\ Len(visited) = NumFiles
  /\ error_count >= 2 /\ skip_count >= 1 /\ success_count >= 1

\* C9: a call reads the file once and writes it at most once; the file on
\* disk is the one the call found until the write, which comes after all
\* six rewrites and stores the fully rewritten text; a call that raises
\* leaves the file as it found it
C9_WriteAfterAllSteps ==
  InCall =>
    /\ reads <= 1 /\ writes <= 1
    /\ (pc \notin {"read"} => reads = 1)
    /\ (writes = 0 => disk = before)
    /\ (writes = 1 => /\ pc = "returned" /\ steps = 6
                      /\ disk = Transform(before, resource_name, resource_var))
    /\ (pc = "raised" => disk = before)

C9_Witness ==
  /\ pc = "returned" /\ writes = 1 /\ reads = 1 /\ steps = 6
  /\ disk # before

\* the text a rewrite looks for is there, in the file the call found
HasComponentAnchor(s) == \E i \in 1..Len(s) : ComponentPatternEnd(s, i, resource_name) > 0
HasItemsAnchor(s) == \E i \in 1..Len(s) : ItemsPatternEnd(s, i, resource_var) > 0
HasEndAnchor(s) == \E i \in 1..Len(s) : EndPatternEnd(s, i) > 0
HasReactImport(s) == \E i \in 1..Len(s) : ImportPatternEnd(s, i) > 0

\* what a patched file holds
PaginationImportLines(s) ==
  {i \in 1..(Len(s) - 3) : SubSeq(s, i, i + 3) = PaginationImport(resource_name)}
HasMathBlock(s) ==
  /\ Count(s, TotalItemsTok(resource_var)) >= 1 /\ Count(s, TOTAL_PAGES_DECL) >= 1
  /\ Count(s, CurrentSliceTok(resource_name, resource_var)) >= 1
HasStateDecls(s) == Count(s, CURRENT_PAGE_DECL) >= 1 /\ Count(s, PAGE_SIZE_DECL) >= 1

\* C2: two successive calls on a file leave the text the first call left,
\* and the second call returns False
C2_Idempotent ==
  Len(hist) >= 2 /\ hist[1].ret # "raised" /\ hist[2].ret # "raised"
    => hist[2].disk = hist[1].disk /\ hist[2].ret = "False"

\* C3: the patched file has as many closing </div> tags as the file had, and
\* every inserted <Pagination> block is followed by the closing sequence
\* </div> </div> ); }
C3_ClosingSequenceKept ==
  Patched =>
    /\ Count(disk, DIV_CLOSE) >= Count(before, DIV_CLOSE)
    /\ \A i \in 1..Len(disk) :
         disk[i] = PAGINATION_TAG =>
           \E k \in i..Len(disk) :
             /\ disk[k] = ")}" /\ \A m \in i..(k - 1) : disk[m] # ")}"
             /\ EndPatternEnd(disk, k + 1) > 0

\* C4: a file without marker that has the three anchors is patched to a
\* file with one currentPage declaration, one pageSize declaration, one
\* pagination-math block and one <Pagination> block
C4_ExactlyOneOfEach ==
  Patched /\ HasComponentAnchor(before) /\ HasItemsAnchor(before) /\ HasEndAnchor(before)
    => /\ Count(disk, CURRENT_PAGE_DECL) = 1 /\ Count(disk, PAGE_SIZE_DECL) = 1
       /\ Count(disk, TotalItemsTok(resource_var)) = 1 /\ Count(disk, TOTAL_PAGES_DECL) = 1
       /\ Count(disk, CurrentSliceTok(resource_name, resource_var)) = 1
       /\ Count(disk, PAGINATION_TAG) = 1

\* C5: a patched file holds the namespace-reset effect exactly if the file
\* the call found holds the text currentNamespace
C5_EffectIffNamespace ==
  Patched =>
    ((Count(disk, EFFECT_HEAD) >= 1 /\ Count(disk, EFFECT_TAIL) >= 1)
       <=> In(HasCurrentNamespace, before))

\* C7: a file with an import line of 'react'; is patched to a file with an
\* import of 'react' that names both useState and useEffect
C7_BothHooksImported ==
  Patched /\ HasReactImport(before) =>
    \E i \in 1..Len(disk) :
      /\ ImportPatternEnd(disk, i) > 0
      /\ In(HasUseState, SubSeq(disk, i, ImportPatternEnd(disk, i)))
      /\ In(HasUseEffect, SubSeq(disk, i, ImportPatternEnd(disk, i)))

\* C8: a patched file has at most one import line of Pagination, right after
\* the first import line of a types module
C8_OnePaginationImport ==
  Patched =>
    /\ Cardinality(PaginationImportLines(disk)) <= 1
    /\ \A i \in PaginationImportLines(disk) :
         /\ i >= 3 /\ disk[i - 1] = NL /\ disk[i - 2] \in TypesTokens
         /\ \A k \in 1..(i - 3) : disk[k] \notin TypesTokens

\* C10: in a patched file a map over current<Name> or a <Pagination> block
\* comes with the pagination-math block, the math block or a <Pagination>
\* block comes with the state declarations, and a <Pagination> block comes
\* with the import of Pagination
C10_UsesHaveDefinitions ==
  Patched =>
    /\ (Count(disk, CurrentMapTok(resource_name)) >= 1 \/ Count(disk, PAGINATION_TAG) >= 1
          => HasMathBlock(disk))
    /\ (HasMathBlock(disk) \/ Count(disk, PAGINATION_TAG) >= 1 => HasStateDecls(disk))
    /\ (Count(disk, PAGINATION_TAG) >= 1 => PaginationImportLines(disk) # {})

====
